---- MODULE Spec2Model ----
(***************************************************************************)
(* Model of southeast-nacos (src/lib.rs): from_nacos and decrypt_password. *)
(*                                                                         *)
(* Rust strings that the code inspects character by character (the        *)
(* password, the server address, the decrypted plaintext) are sequences of *)
(* Unicode code points.  Strings the code only compares for equality or    *)
(* forwards (group, namespace, username, data id, key id, document         *)
(* content, md5 digests) are TLA+ strings.                                 *)
(***************************************************************************)
EXTENDS Integers, Sequences, FiniteSets, TLC

VARIABLES env, pc, key, raw_password, blob, kmsClients, kmsCalls, kmsResp,
          pwResult, nacos_data_id, clientProps, builds, fetches, resp,
          validations, parseCalls, result, trace

vars == <<env, pc, key, raw_password, blob, kmsClients, kmsCalls, kmsResp,
          pwResult, nacos_data_id, clientProps, builds, fetches, resp,
          validations, parseCalls, result, trace>>

----------------------------------------------------------------------------
(* Bounds of the model                                                     *)

\* largest number of leading "ENC(" markers on a password
MaxMarkers == 2
\* largest number of trailing ")" delimiters on a password
MaxClose == 2
\* largest number of scheme prefixes on NACOS_ADDR
MaxSchemes == 2
\* largest length of a ciphertext blob wrapped in a well-formed password
MaxBlobLen == 3

----------------------------------------------------------------------------
(* String helpers (str::starts_with, trim_start_matches, trim_end_matches) *)

StartsWith(s, pat) ==
    /\ Len(pat) <= Len(s)
    /\ SubSeq(s, 1, Len(pat)) = pat

EndsWith(s, pat) ==
    /\ Len(pat) <= Len(s)
    /\ SubSeq(s, Len(s) - Len(pat) + 1, Len(s)) = pat

RECURSIVE TrimStartMatches(_, _)
TrimStartMatches(s, pat) ==
    IF Len(pat) > 0 /\ StartsWith(s, pat)
    THEN TrimStartMatches(SubSeq(s, Len(pat) + 1, Len(s)), pat)
    ELSE s

RECURSIVE TrimEndMatches(_, _)
TrimEndMatches(s, pat) ==
    IF Len(pat) > 0 /\ EndsWith(s, pat)
    THEN TrimEndMatches(SubSeq(s, 1, Len(s) - Len(pat)), pat)
    ELSE s

RECURSIVE Repeat(_, _)
Repeat(s, n) == IF n = 0 THEN <<>> ELSE s \o Repeat(s, n - 1)

\* "ENC("
EncMarker == <<69, 78, 67, 40>>
\* ")"
CloseDelim == <<41>>
\* "http://"
HttpScheme == <<104, 116, 116, 112, 58, 47, 47>>
\* "https://"
HttpsScheme == <<104, 116, 116, 112, 115, 58, 47, 47>>

----------------------------------------------------------------------------
(* base64::engine::general_purpose::STANDARD: alphabet A-Z a-z 0-9 + /,    *)
(* '=' padding required and canonical, non-zero trailing bits rejected     *)

PadChar == 61

IsB64Char(c) ==
    \/ c \in 65..90
    \/ c \in 97..122
    \/ c \in 48..57
    \/ c = 43
    \/ c = 47

\* value of an alphabet character
B64Val(c) ==
    IF c \in 65..90 THEN c - 65
    ELSE IF c \in 97..122 THEN c - 97 + 26
    ELSE IF c \in 48..57 THEN c - 48 + 52
    ELSE IF c = 43 THEN 62
    ELSE 63

\* character of a 6-bit value
B64Chr(v) ==
    IF v < 26 THEN v + 65
    ELSE IF v < 52 THEN v - 26 + 97
    ELSE IF v < 62 THEN v - 52 + 48
    ELSE IF v = 62 THEN 43
    ELSE 47

DecodeFail == [ok |-> FALSE, bytes |-> <<>>]

\* one group of four characters; last = TRUE for the final group, the only
\* one that may carry padding
DecodeQuad(q, last) ==
    LET a == q[1]  b == q[2]  c == q[3]  d == q[4] IN
    IF ~(IsB64Char(a) /\ IsB64Char(b)) THEN DecodeFail
    ELSE IF IsB64Char(c) /\ IsB64Char(d) THEN
        [ok |-> TRUE,
         bytes |-> << B64Val(a) * 4 + B64Val(b) \div 16,
                      (B64Val(b) % 16) * 16 + B64Val(c) \div 4,
                      (B64Val(c) % 4) * 64 + B64Val(d) >>]
    ELSE IF last /\ IsB64Char(c) /\ d = PadChar THEN
        IF B64Val(c) % 4 # 0 THEN DecodeFail
        ELSE [ok |-> TRUE,
              bytes |-> << B64Val(a) * 4 + B64Val(b) \div 16,
                           (B64Val(b) % 16) * 16 + B64Val(c) \div 4 >>]
    ELSE IF last /\ c = PadChar /\ d = PadChar THEN
        IF B64Val(b) % 16 # 0 THEN DecodeFail
        ELSE [ok |-> TRUE, bytes |-> << B64Val(a) * 4 + B64Val(b) \div 16 >>]
    ELSE DecodeFail

RECURSIVE Base64Decode(_)
Base64Decode(s) ==
    IF Len(s) = 0 THEN [ok |-> TRUE, bytes |-> <<>>]
    ELSE IF Len(s) < 4 THEN DecodeFail
    ELSE LET head == DecodeQuad(SubSeq(s, 1, 4), Len(s) = 4)
             rest == Base64Decode(SubSeq(s, 5, Len(s)))
         IN IF head.ok /\ rest.ok
            THEN [ok |-> TRUE, bytes |-> head.bytes \o rest.bytes]
            ELSE DecodeFail

----------------------------------------------------------------------------
(* String::from_utf8: well-formed UTF-8 (RFC 3629) decodes to its code     *)
(* points, anything else is rejected                                       *)

IsCont(b) == b \in 128..191

Utf8Fail == [ok |-> FALSE, str |-> <<>>]

RECURSIVE FromUtf8(_)
FromUtf8(bytes) ==
    IF Len(bytes) = 0 THEN [ok |-> TRUE, str |-> <<>>]
    ELSE
      LET b1 == bytes[1]
          n == IF b1 < 128 THEN 1
               ELSE IF b1 \in 194..223 THEN 2
               ELSE IF b1 \in 224..239 THEN 3
               ELSE IF b1 \in 240..244 THEN 4
               ELSE 0
      IN IF n = 0 \/ Len(bytes) < n THEN Utf8Fail
         ELSE
           LET wellFormed ==
                 /\ \A i \in 2..n : IsCont(bytes[i])
                 /\ b1 = 224 => bytes[2] >= 160
                 /\ b1 = 237 => bytes[2] <= 159
                 /\ b1 = 240 => bytes[2] >= 144
                 /\ b1 = 244 => bytes[2] <= 143
               cp == IF n = 1 THEN b1
                     ELSE IF n = 2 THEN (b1 - 192) * 64 + (bytes[2] - 128)
                     ELSE IF n = 3 THEN (b1 - 224) * 4096 + (bytes[2] - 128) * 64
                                         + (bytes[3] - 128)
                     ELSE (b1 - 240) * 262144 + (bytes[2] - 128) * 4096
                          + (bytes[3] - 128) * 64 + (bytes[4] - 128)
               rest == FromUtf8(SubSeq(bytes, n + 1, Len(bytes)))
           IN IF wellFormed /\ rest.ok
              THEN [ok |-> TRUE, str |-> <<cp>> \o rest.str]
              ELSE Utf8Fail

----------------------------------------------------------------------------
(* Inputs: the process environment and the two remote collaborators        *)

EnvVars == {"NACOS_ADDR", "NACOS_GROUP", "NACOS_NAMESPACE", "NACOS_USERNAME",
            "NACOS_PASSWORD", "NACOS_DATA_ID", "KMS_KEY_ID"}

GroupVal == "DEFAULT_GROUP"
NamespaceVal == "ns1"
UsernameVal == "nacos"
DataIdVal == "app.json"
KeyIdVal == "key-1"

\* the byte the bounded ciphertext blobs are made of: 0xFF
BlobBytes == {255}

\* a blob of other bytes: "AB", whose encoding "QUI=" uses three letters
OtherBlobs == { <<65, 66>> }

RECURSIVE SeqsUpTo(_, _)
SeqsUpTo(S, n) ==
    IF n = 0 THEN {<<>>}
    ELSE LET shorter == SeqsUpTo(S, n - 1)
         IN shorter \cup {Append(q, x) : q \in {r \in shorter : Len(r) = n - 1}, x \in S}

Blobs == SeqsUpTo(BlobBytes, MaxBlobLen) \cup OtherBlobs

\* the standard base64 encoding of a byte sequence, with '=' padding
RECURSIVE Base64Encode(_)
Base64Encode(b) ==
    IF Len(b) = 0 THEN <<>>
    ELSE IF Len(b) = 1 THEN
        << B64Chr(b[1] \div 4), B64Chr((b[1] % 4) * 16), PadChar, PadChar >>
    ELSE IF Len(b) = 2 THEN
        << B64Chr(b[1] \div 4), B64Chr((b[1] % 4) * 16 + b[2] \div 16),
           B64Chr((b[2] % 16) * 4), PadChar >>
    ELSE
        << B64Chr(b[1] \div 4), B64Chr((b[1] % 4) * 16 + b[2] \div 16),
           B64Chr((b[2] % 16) * 4 + b[3] \div 64), B64Chr(b[3] % 64) >>
        \o Base64Encode(SubSeq(b, 4, Len(b)))

\* payloads that are not standard base64: "pw", "!!", "QR==" (non-zero
\* trailing bits)
BadPayloads == { <<112, 119>>, <<33, 33>>, <<81, 82, 61, 61>> }

Payloads == {Base64Encode(b) : b \in Blobs} \cup BadPayloads

\* "ENC" and "xENC(QQ==)": the marker incomplete, and not at the start
OddPasswords == { <<69, 78, 67>>, <<120>> \o EncMarker \o <<81, 81, 61, 61>> \o CloseDelim }

Passwords ==
    { Repeat(EncMarker, k) \o p \o Repeat(CloseDelim, j) :
        k \in 0..MaxMarkers, p \in Payloads, j \in 0..MaxClose }
    \cup OddPasswords

\* "h:1"
HostPort == <<104, 58, 49>>

RECURSIVE Flatten(_)
Flatten(ss) == IF Len(ss) = 0 THEN <<>> ELSE ss[1] \o Flatten(Tail(ss))

Addresses ==
    { Flatten(ss) \o HostPort : ss \in SeqsUpTo({HttpScheme, HttpsScheme}, MaxSchemes) }

\* the environment of one invocation; an unset variable has no value
Environments ==
    { [present |-> P,
       NACOS_ADDR |-> IF "NACOS_ADDR" \in P THEN a ELSE <<>>,
       NACOS_PASSWORD |-> IF "NACOS_PASSWORD" \in P THEN p ELSE <<>>] :
        P \in SUBSET EnvVars, a \in Addresses, p \in Passwords }

\* plaintexts the key-management service may answer with: "pw", the euro
\* sign, and three byte strings that are not UTF-8
PlainBlobs == { <<112, 119>>, <<226, 130, 172>>, <<255>>, <<195>>, <<237, 160, 128>> }

KmsResponses ==
    { [tag |-> "error", bytes |-> <<>>], [tag |-> "none", bytes |-> <<>>] }
    \cup { [tag |-> "some", bytes |-> b] : b \in PlainBlobs }

NoKmsResp == [tag |-> "unsent", bytes |-> <<>>]

\* document contents, for a target type T = struct { port: u16 }
Contents == { "{\"port\":8080}", "{\"port\": 8080 }", "{\"port\":\"x\"}" }

\* Md5::input_str + result_str: the lower-case hex MD5 digest of the content
Md5Hex(content) ==
    CASE content = "{\"port\":8080}"   -> "2f3731e1fe7b945bedec86f30b295d3d"
      [] content = "{\"port\": 8080 }" -> "89cd2ad216e11896505dcf1da6a33932"
      [] content = "{\"port\":\"x\"}"  -> "5956eb86d0ec8c43fb813cd8a84d2751"

\* serde_json::from_str::<T>
ParseJson(content) ==
    CASE content = "{\"port\":8080}"   -> [ok |-> TRUE, value |-> [port |-> 8080]]
      [] content = "{\"port\": 8080 }" -> [ok |-> TRUE, value |-> [port |-> 8080]]
      [] content = "{\"port\":\"x\"}"  -> [ok |-> FALSE, value |-> [port |-> 0]]

\* checksums a response may declare: every digest, and one in upper case
DeclaredMd5s == {Md5Hex(c) : c \in Contents} \cup {"2F3731E1FE7B945BEDEC86F30B295D3D"}

Responses ==
    [content : Contents,
     namespace : {NamespaceVal, "ns2"},
     data_id : {DataIdVal, "other.json"},
     group : {GroupVal, "OTHER_GROUP"},
     md5 : DeclaredMd5s]

NoResp == [content |-> "", namespace |-> "", data_id |-> "", group |-> "", md5 |-> ""]

----------------------------------------------------------------------------
(* Results and errors (NacosError, lines 13-36)                            *)

\* a message is a sequence of parts: literal text, or an interpolated string
Lit(s) == [t |-> "lit", s |-> s, c |-> <<>>]
Str(c) == [t |-> "str", s |-> "", c |-> c]

None == [tag |-> "none"]
Ok(v) == [tag |-> "ok", value |-> v]
Err(kind, msg) == [tag |-> "err", kind |-> kind, msg |-> msg]

\* env::var(name)
IsSet(name) == name \in env.present

EnvVarError(name) == Err("EnvVarError", <<Lit(name), Lit(" not set")>>)

\* the variables from_nacos reads before it decrypts the password
FirstVars == <<"NACOS_ADDR", "NACOS_GROUP", "NACOS_NAMESPACE", "NACOS_USERNAME",
               "NACOS_PASSWORD">>

Missing(order) == {i \in DOMAIN order : ~IsSet(order[i])}

FirstMissing(order) ==
    order[CHOOSE i \in Missing(order) : \A j \in Missing(order) : i <= j]

NoProps == [server_addr |-> <<>>, namespace |-> "", env_first |-> FALSE,
            auth_username |-> "", auth_password |-> <<>>]

----------------------------------------------------------------------------
(* Pure steps of the code                                                  *)

\* the marker looked for anywhere in the password (str::contains)
IsEncryptedAnywhere(password) ==
    \E i \in 1..Len(password) : StartsWith(SubSeq(password, i, Len(password)), EncMarker)

\* line 107
IsEncrypted(password) == StartsWith(password, EncMarker)

\* the closing delimiter left in place
RawPasswordKeepClose(password) == TrimStartMatches(password, EncMarker)

\* line 110
RawPassword(password) ==
    TrimEndMatches(TrimStartMatches(password, EncMarker), CloseDelim)

\* only "http://" removed
NormalizeAddrHttpOnly(addr) == TrimStartMatches(addr, HttpScheme)

\* line 59
NormalizeAddr(addr) ==
    TrimStartMatches(TrimStartMatches(addr, HttpScheme), HttpsScheme)

\* a failed decode replaced by an empty blob (unwrap_or_default)
GetBlobResultLenient(raw) ==
    IF Base64Decode(raw).ok THEN Ok(Base64Decode(raw).bytes) ELSE Ok(<<>>)

\* lines 127-132
GetBlobResult(raw) ==
    IF Base64Decode(raw).ok
    THEN Ok(Base64Decode(raw).bytes)
    ELSE Err("Base64DecodeError",
             <<Lit("Failed to decode base64: "), Str(raw), Lit(": "),
               Lit("<base64::DecodeError>")>>)

\* lines 134-149
DecryptBlobResult(r) ==
    IF r.tag = "error"
    THEN Err("KmsError", <<Lit("Failed to decrypt blob from kms: "), Lit("<SdkError>")>>)
    ELSE IF r.tag = "none"
    THEN Err("KmsError", <<Lit("Failed to get plaintext from kms's response")>>)
    ELSE IF FromUtf8(r.bytes).ok
    THEN Ok(FromUtf8(r.bytes).str)
    ELSE Err("Utf8Error", <<Lit("Could not convert to UTF-8: "), Lit("<FromUtf8Error>")>>)

\* the checksum compared before the identity fields
ValidateResultMd5First(r, namespace, data_id, group) ==
    IF r.md5 # Md5Hex(r.content)
    THEN Err("NacosConfigError", <<Lit("ConfigResponse md5 unmatched")>>)
    ELSE IF r.namespace # namespace
    THEN Err("NacosConfigError", <<Lit("nacos_namespace unmatched")>>)
    ELSE IF r.data_id # data_id
    THEN Err("NacosConfigError", <<Lit("nacos_data_id unmatched")>>)
    ELSE IF r.group # group
    THEN Err("NacosConfigError", <<Lit("nacos_group unmatched")>>)
    ELSE None

\* the checksum comparison left out
ValidateResultNoMd5(r, namespace, data_id, group) ==
    IF r.namespace # namespace
    THEN Err("NacosConfigError", <<Lit("nacos_namespace unmatched")>>)
    ELSE IF r.data_id # data_id
    THEN Err("NacosConfigError", <<Lit("nacos_data_id unmatched")>>)
    ELSE IF r.group # group
    THEN Err("NacosConfigError", <<Lit("nacos_group unmatched")>>)
    ELSE None

\* lines 81-98: None when all four comparisons pass
ValidateResult(r, namespace, data_id, group) ==
    IF r.namespace # namespace
    THEN Err("NacosConfigError", <<Lit("nacos_namespace unmatched")>>)
    ELSE IF r.data_id # data_id
    THEN Err("NacosConfigError", <<Lit("nacos_data_id unmatched")>>)
    ELSE IF r.group # group
    THEN Err("NacosConfigError", <<Lit("nacos_group unmatched")>>)
    ELSE IF r.md5 # Md5Hex(r.content)
    THEN Err("NacosConfigError", <<Lit("ConfigResponse md5 unmatched")>>)
    ELSE None

\* the parser handed the declared checksum instead of the content
ParseResultOfDigest(content) ==
    Err("ConfigParseError",
        <<Lit("Failed to parse config from nacos: "), Lit(Md5Hex(content)), Lit(": "),
          Lit("<serde_json::Error>")>>)

\* lines 101-102
ParseResult(content) ==
    IF ParseJson(content).ok
    THEN Ok(ParseJson(content).value)
    ELSE Err("ConfigParseError",
             <<Lit("Failed to parse config from nacos: "), Lit(content), Lit(": "),
               Lit("<serde_json::Error>")>>)

----------------------------------------------------------------------------
(* The state machine: one invocation of from_nacos                         *)

Init ==
    /\ env \in Environments
    /\ pc = "read_env"
    /\ key = ""
    /\ raw_password = <<>>
    /\ blob = <<>>
    /\ kmsClients = 0
    /\ kmsCalls = <<>>
    /\ kmsResp = NoKmsResp
    /\ pwResult = None
    /\ nacos_data_id = ""
    /\ clientProps = NoProps
    /\ builds = 0
    /\ fetches = <<>>
    /\ resp = NoResp
    /\ validations = 0
    /\ parseCalls = <<>>
    /\ result = None
    /\ trace = <<>>

\* lines 43-52
ReadEnv ==
    /\ pc = "read_env"
    /\ trace' = Append(trace, "read_env")
    /\ IF Missing(FirstVars) # {}
       THEN /\ result' = EnvVarError(FirstMissing(FirstVars))
            /\ pc' = "done"
       ELSE /\ pc' = "decrypt"
            /\ UNCHANGED result
    /\ UNCHANGED <<env, key, raw_password, blob, kmsClients, kmsCalls, kmsResp,
                   pwResult, nacos_data_id, clientProps, builds, fetches, resp,
                   validations, parseCalls>>

\* lines 53, 107, 114-117: a password without the marker is returned as it is
DecryptPlain ==
    /\ pc = "decrypt"
    /\ ~IsEncrypted(env.NACOS_PASSWORD)
    /\ trace' = Append(trace, "decrypt_plain")
    /\ pwResult' = Ok(env.NACOS_PASSWORD)
    /\ pc' = "read_data_id"
    /\ UNCHANGED <<env, key, raw_password, blob, kmsClients, kmsCalls, kmsResp,
                   nacos_data_id, clientProps, builds, fetches, resp,
                   validations, parseCalls, result>>

\* lines 53, 107-109
DecryptReadKey ==
    /\ pc = "decrypt"
    /\ IsEncrypted(env.NACOS_PASSWORD)
    /\ trace' = Append(trace, "read_key")
    /\ IF IsSet("KMS_KEY_ID")
       THEN /\ key' = KeyIdVal
            /\ pc' = "get_blob"
            /\ UNCHANGED <<pwResult, result>>
       ELSE /\ pwResult' = EnvVarError("KMS_KEY_ID")
            /\ result' = EnvVarError("KMS_KEY_ID")
            /\ pc' = "done"
            /\ UNCHANGED key
    /\ UNCHANGED <<env, raw_password, blob, kmsClients, kmsCalls, kmsResp,
                   nacos_data_id, clientProps, builds, fetches, resp,
                   validations, parseCalls>>

\* lines 110-111, 127-132
GetBlob ==
    /\ pc = "get_blob"
    /\ trace' = Append(trace, "get_blob")
    /\ raw_password' = RawPassword(env.NACOS_PASSWORD)
    /\ LET r == GetBlobResult(RawPassword(env.NACOS_PASSWORD)) IN
       IF r.tag = "ok"
       THEN /\ blob' = r.value
            /\ pc' = "kms_client"
            /\ UNCHANGED <<pwResult, result>>
       ELSE /\ pwResult' = r
            /\ result' = r
            /\ pc' = "done"
            /\ UNCHANGED blob
    /\ UNCHANGED <<env, key, kmsClients, kmsCalls, kmsResp, nacos_data_id,
                   clientProps, builds, fetches, resp, validations, parseCalls>>

\* lines 112, 121-125
GetKmsClient ==
    /\ pc = "kms_client"
    /\ trace' = Append(trace, "kms_client")
    /\ kmsClients' = kmsClients + 1
    /\ pc' = "decrypt_blob"
    /\ UNCHANGED <<env, key, raw_password, blob, kmsCalls, kmsResp, pwResult,
                   nacos_data_id, clientProps, builds, fetches, resp,
                   validations, parseCalls, result>>

\* lines 113, 134-149: the decrypt request and the service's answer
DecryptBlob ==
    /\ pc = "decrypt_blob"
    /\ trace' = Append(trace, "decrypt_blob")
    /\ kmsCalls' = Append(kmsCalls, [key_id |-> key, ciphertext_blob |-> blob])
    /\ \E r \in KmsResponses :
        /\ kmsResp' = r
        /\ pwResult' = DecryptBlobResult(r)
        /\ IF DecryptBlobResult(r).tag = "ok"
           THEN /\ pc' = "read_data_id"
                /\ UNCHANGED result
           ELSE /\ result' = DecryptBlobResult(r)
                /\ pc' = "done"
    /\ UNCHANGED <<env, key, raw_password, blob, kmsClients, nacos_data_id,
                   clientProps, builds, fetches, resp, validations, parseCalls>>

\* lines 55-56
ReadDataId ==
    /\ pc = "read_data_id"
    /\ trace' = Append(trace, "read_data_id")
    /\ IF IsSet("NACOS_DATA_ID")
       THEN /\ nacos_data_id' = DataIdVal
            /\ pc' = "build"
            /\ UNCHANGED result
       ELSE /\ result' = EnvVarError("NACOS_DATA_ID")
            /\ pc' = "done"
            /\ UNCHANGED nacos_data_id
    /\ UNCHANGED <<env, key, raw_password, blob, kmsClients, kmsCalls, kmsResp,
                   pwResult, clientProps, builds, fetches, resp, validations,
                   parseCalls>>

\* lines 58-73: the address is normalised, the client properties are filled
\* in, and the connection is built or fails
BuildConnection ==
    /\ pc = "build"
    /\ trace' = Append(trace, "build")
    /\ clientProps' = [server_addr |-> NormalizeAddr(env.NACOS_ADDR),
                       namespace |-> NamespaceVal,
                       env_first |-> FALSE,
                       auth_username |-> UsernameVal,
                       auth_password |-> pwResult.value]
    /\ builds' = builds + 1
    /\ \E built \in BOOLEAN :
        IF built
        THEN /\ pc' = "get_config"
             /\ UNCHANGED result
        ELSE /\ result' = Err("NacosConnectionError",
                              <<Lit("Failed to create ConfigServiceBuilder for nacos: "),
                                Str(NormalizeAddr(env.NACOS_ADDR)), Lit(": "),
                                Lit("<nacos_sdk::Error>")>>)
             /\ pc' = "done"
    /\ UNCHANGED <<env, key, raw_password, blob, kmsClients, kmsCalls, kmsResp,
                   pwResult, nacos_data_id, fetches, resp, validations,
                   parseCalls>>

\* lines 76-79: the request fails
GetConfigFail ==
    /\ pc = "get_config"
    /\ trace' = Append(trace, "get_config")
    /\ fetches' = Append(fetches, [data_id |-> nacos_data_id, group |-> GroupVal])
    /\ result' = Err("NacosConfigError",
                     <<Lit("Failed to get config from nacos, data_id: "),
                       Lit(nacos_data_id), Lit(", group: "), Lit(GroupVal),
                       Lit(": "), Lit("<nacos_sdk::Error>")>>)
    /\ pc' = "done"
    /\ UNCHANGED <<env, key, raw_password, blob, kmsClients, kmsCalls, kmsResp,
                   pwResult, nacos_data_id, clientProps, builds, resp,
                   validations, parseCalls>>

\* lines 76-79: the service answers with a document
GetConfigOk ==
    /\ pc = "get_config"
    /\ trace' = Append(trace, "get_config")
    /\ fetches' = Append(fetches, [data_id |-> nacos_data_id, group |-> GroupVal])
    /\ resp' \in Responses
    /\ pc' = "validate"
    /\ UNCHANGED <<env, key, raw_password, blob, kmsClients, kmsCalls, kmsResp,
                   pwResult, nacos_data_id, clientProps, builds, validations,
                   parseCalls, result>>

\* lines 81-98
Validate ==
    /\ pc = "validate"
    /\ trace' = Append(trace, "validate")
    /\ validations' = validations + 1
    /\ LET r == ValidateResult(resp, NamespaceVal, nacos_data_id, GroupVal) IN
       IF r.tag = "err"
       THEN /\ result' = r
            /\ pc' = "done"
       ELSE /\ pc' = "parse"
            /\ UNCHANGED result
    /\ UNCHANGED <<env, key, raw_password, blob, kmsClients, kmsCalls, kmsResp,
                   pwResult, nacos_data_id, clientProps, builds, fetches, resp,
                   parseCalls>>

\* lines 100-103
Parse ==
    /\ pc = "parse"
    /\ trace' = Append(trace, "parse")
    /\ parseCalls' = Append(parseCalls, resp.content)
    /\ result' = ParseResult(resp.content)
    /\ pc' = "done"
    /\ UNCHANGED <<env, key, raw_password, blob, kmsClients, kmsCalls, kmsResp,
                   pwResult, nacos_data_id, clientProps, builds, fetches, resp,
                   validations>>

Next ==
    \/ ReadEnv
    \/ DecryptPlain
    \/ DecryptReadKey
    \/ GetBlob
    \/ GetKmsClient
    \/ DecryptBlob
    \/ ReadDataId
    \/ BuildConnection
    \/ GetConfigFail
    \/ GetConfigOk
    \/ Validate
    \/ Parse

Spec == Init /\ [][Next]_vars

----------------------------------------------------------------------------
(* Properties                                                              *)

Range(q) == {q[i] : i \in DOMAIN q}

password == env.NACOS_PASSWORD

NamespaceMsg == Err("NacosConfigError", <<Lit("nacos_namespace unmatched")>>)
DataIdMsg == Err("NacosConfigError", <<Lit("nacos_data_id unmatched")>>)
GroupMsg == Err("NacosConfigError", <<Lit("nacos_group unmatched")>>)
Md5Msg == Err("NacosConfigError", <<Lit("ConfigResponse md5 unmatched")>>)

NsBad == resp.namespace # NamespaceVal
IdBad == resp.data_id # DataIdVal
GroupBad == resp.group # GroupVal
Md5Bad == resp.md5 # Md5Hex(resp.content)

\* C1: once a document has been validated, the error names the earliest of
\* namespace, data_id, group, md5 that mismatches, whatever the later fields
\* are; with no mismatch there is no validation error.
C1_FirstMismatchNamed ==
    validations = 1 =>
        /\ NsBad => result = NamespaceMsg
        /\ ~NsBad /\ IdBad => result = DataIdMsg
        /\ ~NsBad /\ ~IdBad /\ GroupBad => result = GroupMsg
        /\ ~NsBad /\ ~IdBad /\ ~GroupBad /\ Md5Bad => result = Md5Msg
        /\ ~NsBad /\ ~IdBad /\ ~GroupBad /\ ~Md5Bad =>
              result \notin {NamespaceMsg, DataIdMsg, GroupMsg, Md5Msg}

\* a data_id mismatch is reported although group and md5 mismatch as well
C1_Witness ==
    /\ validations = 1
    /\ ~NsBad /\ IdBad /\ GroupBad /\ Md5Bad
    /\ result = DataIdMsg

\* C2 as stated: a response whose declared md5 differs from the recomputed
\* digest fails with the md5 message, whether or not namespace, data_id and
\* group matched.
C2_Md5MessageRegardless ==
    (validations = 1 /\ Md5Bad) => result = Md5Msg

\* C2 amended: a response whose declared md5 differs from the recomputed
\* digest fails with a NacosConfigError; the message is the md5 one exactly
\* when namespace, data_id and group all match.
C2_Md5MismatchFails ==
    (validations = 1 /\ Md5Bad) =>
        /\ pc = "done"
        /\ result \in {NamespaceMsg, DataIdMsg, GroupMsg, Md5Msg}
        /\ result = Md5Msg <=> (~NsBad /\ ~IdBad /\ ~GroupBad)

C2_Witness ==
    /\ validations = 1
    /\ Md5Bad /\ ~NsBad /\ ~IdBad /\ ~GroupBad
    /\ result = Md5Msg

\* the stage an executed step belongs to
StageOf(e) ==
    CASE e \in {"read_env", "read_data_id"} -> 1
      [] e \in {"decrypt_plain", "read_key", "get_blob", "kms_client", "decrypt_blob"} -> 2
      [] e = "build" -> 3
      [] e = "get_config" -> 4
      [] e = "validate" -> 5
      [] e = "parse" -> 6

\* C3: the stages run in the order read-settings, decrypt, build, fetch,
\* validate, parse; the first failure ends the call and no later stage acts
\* (no build or fetch after a decrypt failure, no validation after a fetch
\* failure, no parse of a document that failed a comparison); no step runs
\* twice.
C3_StagesInOrder ==
    /\ \A i, j \in DOMAIN trace : i < j => StageOf(trace[i]) <= StageOf(trace[j])
    /\ \A i, j \in DOMAIN trace : i # j => trace[i] # trace[j]
    /\ result.tag = "err" => pc = "done"
    /\ pwResult.tag = "err" => (builds = 0 /\ fetches = <<>>)
    /\ (result.tag = "err" /\ "get_config" = trace[Len(trace)]) => validations = 0
    /\ parseCalls # <<>> => (~NsBad /\ ~IdBad /\ ~GroupBad /\ ~Md5Bad)
    /\ builds <= 1 /\ Len(fetches) <= 1 /\ validations <= 1 /\ Len(parseCalls) <= 1

\* C4: a fetched response that passes the four comparisons and whose content
\* is well-formed JSON for T makes from_nacos return Ok with the value of
\* parsing exactly that content.
C4_RoundTrip ==
    (/\ pc = "done"
     /\ resp \in Responses
     /\ ~NsBad /\ ~IdBad /\ ~GroupBad /\ ~Md5Bad
     /\ ParseJson(resp.content).ok)
    => /\ result = Ok(ParseJson(resp.content).value)
       /\ parseCalls = <<resp.content>>

C4_Witness ==
    /\ pc = "done"
    /\ resp.content = "{\"port\": 8080 }"
    /\ result = Ok([port |-> 8080])

\* the variables an invocation requires
RequiredVars ==
    {"NACOS_ADDR", "NACOS_GROUP", "NACOS_NAMESPACE", "NACOS_USERNAME",
     "NACOS_PASSWORD", "NACOS_DATA_ID"}
    \cup (IF IsSet("NACOS_PASSWORD") /\ StartsWith(password, EncMarker)
          THEN {"KMS_KEY_ID"} ELSE {})

\* C5: when a required variable is absent, from_nacos returns EnvVarError
\* naming an absent variable, and no KMS decrypt call, Nacos connection or
\* fetch has happened in the invocation.
C5_MissingVarBeforeNetwork ==
    (pc = "done" /\ RequiredVars \ env.present # {}) =>
        /\ \E v \in RequiredVars \ env.present : result = EnvVarError(v)
        /\ kmsCalls = <<>>
        /\ builds = 0
        /\ fetches = <<>>

\* the steps of from_nacos before decrypt_password has returned
BeforeDecryptReturns == {"read_env", "decrypt", "get_blob", "kms_client", "decrypt_blob"}

\* C6: a password that does not begin with "ENC(" is returned unchanged,
\* without a KMS client or decrypt call and without reading KMS_KEY_ID.
C6_PlainPasswordUnchanged ==
    (/\ Missing(FirstVars) = {}
     /\ pc \notin {"read_env", "decrypt"}
     /\ ~StartsWith(password, EncMarker))
    => /\ pwResult = Ok(password)
       /\ kmsClients = 0
       /\ kmsCalls = <<>>
       /\ "read_key" \notin Range(trace)

\* a password with the marker inside it, returned with KMS_KEY_ID unset
C6_Witness ==
    /\ ~IsSet("KMS_KEY_ID")
    /\ Len(password) > Len(EncMarker)
    /\ ~StartsWith(password, EncMarker)
    /\ IsEncryptedAnywhere(password)
    /\ pwResult = Ok(password)

\* the UTF-8 encoding of a string of code points below U+10000
RECURSIVE Utf8Encode(_)
Utf8Encode(str) ==
    IF Len(str) = 0 THEN <<>>
    ELSE LET cp == str[1]
             head == IF cp < 128 THEN <<cp>>
                     ELSE IF cp < 2048 THEN <<192 + (cp \div 64), 128 + (cp % 64)>>
                     ELSE <<224 + (cp \div 4096), 128 + ((cp \div 64) % 64), 128 + (cp % 64)>>
         IN head \o Utf8Encode(Tail(str))

\* "pw" and the euro sign
PlainStrings == { <<112, 119>>, <<8364>> }

Wrapped(c) == EncMarker \o Base64Encode(c) \o CloseDelim

WrappedBlobs == [c \in Blobs |-> Wrapped(c)]

\* C7: for a password ENC(base64(c)) with KMS_KEY_ID set, the blob decoded
\* is c; when the service answers with the UTF-8 bytes of s, decrypt_password
\* returns Ok(s) after exactly one decrypt call, for blob c under KMS_KEY_ID.
C7_WrappedPasswordDecrypted ==
    \A c \in Blobs :
        (Missing(FirstVars) = {} /\ IsSet("KMS_KEY_ID") /\ password = WrappedBlobs[c]) =>
            /\ "get_blob" \in Range(trace) =>
                  /\ blob = c
                  /\ raw_password = Base64Encode(c)
                  /\ ~(pwResult.tag = "err" /\ pwResult.kind = "Base64DecodeError")
            /\ \A s \in PlainStrings :
                  kmsResp = [tag |-> "some", bytes |-> Utf8Encode(s)] =>
                      /\ pwResult = Ok(s)
                      /\ kmsCalls = <<[key_id |-> KeyIdVal, ciphertext_blob |-> c]>>

\* ENC(//8=) decrypted to the euro sign
C7_Witness ==
    /\ password = Wrapped(<<255, 255>>)
    /\ raw_password = <<47, 47, 56, 61>>
    /\ kmsCalls = <<[key_id |-> KeyIdVal, ciphertext_blob |-> <<255, 255>>]>>
    /\ pwResult = Ok(<<8364>>)

\* standard base64 text: groups of four alphabet characters, the last group
\* padded with one or two '=' whose preceding character has no stray bits
IsStandardBase64(s) ==
    LET n == Len(s)
        pads == IF n >= 2 /\ s[n] = PadChar /\ s[n - 1] = PadChar THEN 2
                ELSE IF n >= 1 /\ s[n] = PadChar THEN 1
                ELSE 0
    IN /\ n % 4 = 0
       /\ \A i \in 1..(n - pads) : IsB64Char(s[i])
       /\ pads = 1 => B64Val(s[n - 1]) % 4 = 0
       /\ pads = 2 => B64Val(s[n - 2]) % 16 = 0

\* the password without its leading marker and without one trailing ")"
PayloadOnce(pw) ==
    LET rest == SubSeq(pw, Len(EncMarker) + 1, Len(pw))
    IN IF EndsWith(rest, CloseDelim) THEN SubSeq(rest, 1, Len(rest) - 1) ELSE rest

\* the password without all of its leading markers and trailing ")"
PayloadAll(pw) ==
    LET cut == CHOOSE kj \in (1..Len(pw)) \X (0..Len(pw)) :
                 LET p == SubSeq(pw, Len(EncMarker) * kj[1] + 1, Len(pw) - kj[2])
                 IN /\ pw = Repeat(EncMarker, kj[1]) \o p \o Repeat(CloseDelim, kj[2])
                    /\ ~StartsWith(p, EncMarker)
                    /\ ~EndsWith(p, CloseDelim)
    IN SubSeq(pw, Len(EncMarker) * cut[1] + 1, Len(pw) - cut[2])

\* the marked passwords whose payload, stripped once, is not base64
BadOncePasswords ==
    {pw \in Passwords : StartsWith(pw, EncMarker) /\ ~IsStandardBase64(PayloadOnce(pw))}

\* the marked passwords whose payload, stripped of all, is not base64
BadAllPasswords ==
    {pw \in Passwords : StartsWith(pw, EncMarker) /\ ~IsStandardBase64(PayloadAll(pw))}

DecryptReturned == Missing(FirstVars) = {} /\ pc \notin BeforeDecryptReturns

Base64Failure ==
    /\ pwResult.tag = "err"
    /\ pwResult.kind = "Base64DecodeError"
    /\ kmsClients = 0
    /\ kmsCalls = <<>>

IsPartOf(c, s) ==
    /\ Len(c) > 0
    /\ \E i \in 1..Len(s) : StartsWith(SubSeq(s, i, Len(s)), c)

\* C9: no error of from_nacos or decrypt_password carries the password, a
\* part of it, or the plaintext returned by the key-management service.
C9_NoSecretInErrors ==
    \A r \in {result, pwResult} :
        r.tag = "err" =>
            \A i \in DOMAIN r.msg :
                r.msg[i].t = "str" =>
                    /\ ~(IsSet("NACOS_PASSWORD") /\ IsPartOf(r.msg[i].c, password))
                    /\ ~(kmsResp.tag = "some" /\ r.msg[i].c = kmsResp.bytes)

server_addr == clientProps.server_addr

NoScheme(a) == ~StartsWith(a, HttpScheme) /\ ~StartsWith(a, HttpsScheme)

\* C10 as stated: the address handed to the Nacos client never begins with
\* "http://" or "https://", and an address without a scheme is unchanged.
C10_BareAddressOriginal ==
    builds = 1 =>
        /\ NoScheme(server_addr)
        /\ NoScheme(env.NACOS_ADDR) => server_addr = env.NACOS_ADDR

\* C10 amended: the address handed to the Nacos client never begins with
\* "https://"; it begins with "http://" only when an "https://" stood
\* directly before that "http://" in NACOS_ADDR; an address without a scheme
\* is unchanged.
C10_BareAddress ==
    builds = 1 =>
        /\ ~StartsWith(server_addr, HttpsScheme)
        /\ StartsWith(server_addr, HttpScheme) =>
              \E m \in 0..Len(env.NACOS_ADDR), k \in 1..Len(env.NACOS_ADDR) :
                  env.NACOS_ADDR = Repeat(HttpScheme, m) \o Repeat(HttpsScheme, k) \o server_addr
        /\ NoScheme(env.NACOS_ADDR) => server_addr = env.NACOS_ADDR

\* http://https://h:1 handed over as h:1
C10_Witness ==
    /\ builds = 1
    /\ env.NACOS_ADDR = HttpScheme \o HttpsScheme \o HostPort
    /\ server_addr = HostPort

====
